---- MODULE Spec2Model ----
(***************************************************************************)
(* Model of custom_components/tigo_cloud/tigo.py: the CookieCache session  *)
(* cache (login, expiry, forced reset) and TigoData.fetch_data, one        *)
(* polling cycle with its energy integration.                              *)
(*                                                                         *)
(* Conventions.                                                            *)
(*  - Time is counted in seconds.  datetime(1,1,1) is Epoch.               *)
(*  - A Python value that may be None (or a dict key that may be missing,  *)
(*    which every reader of the dict obtains through .get and so sees as   *)
(*    None) is a sequence: << >> is None, <<v>> is the value v.            *)
(*  - The accumulators hold exact energy in power-seconds: the code's      *)
(*    power * (seconds / 3600.0) is the accumulator divided by             *)
(*    SecondsPerHour.  Energy(v) states the scaling.                       *)
(*  - Upstream responses are inputs.  A response other than the nominal    *)
(*    one (an exception, a non-200 status, a malformed body) is a fault;   *)
(*    at most MaxFaults faults happen in a run.                            *)
(*  - In one run the upstream varies in one aspect (vary): the login and   *)
(*    the session's validity, the instantaneous-power readings, or the     *)
(*    sub-fetches of the cycle.  The other aspects answer nominally.       *)
(***************************************************************************)
EXTENDS Integers, Sequences, FiniteSets, TLC

\* ---------------------------------------------------------------- bounds
MaxCycles == 3
MaxFaults == 1
MaxTicks == 3
MaxSeries == 2
MaxData == 2

\* ------------------------------------------------------- program constants
Epoch == 0
SecondsPerHour == 3600

None == << >>
Some(v) == <<v>>

\* Durations by which the wall clock advances between two cycles.
Intervals == {1800}
\* The clock's first reading, and the last reading a run gets to.
StartTimes == {3600}
Horizon == 3600 + MaxTicks * 1800
\* Time a login sequence may take.
LoginDurations == {0, 1800}
\* max-age values the server may declare on the session cookie.
MaxAges == {1800, 3600, 7200}
\* "HH:MM" observation times found in datasetLastData.
ObsTimes == {1, 2}

LastValueFields == <<"pin", "rssi", "pwm", "temp", "vin", "vout", "iin", "reclaimedPower">>
Aspects == {"session", "power", "fetch"}
Aggs == <<"now", "hour", "day", "month", "year">>
Channels == {"solar_energy", "home_energy", "grid_import", "grid_export",
             "battery_charge", "battery_discharge"}
PowerFields == {"gridPower", "homePower", "batteryPercentage", "batteryPower",
                "solarPower", "objectTypeIds", "dataAvailable", "time"}
SeqRange(s) == {s[i] : i \in 1..Len(s)}
Fields == {"energyRaw", "energy", "allTime"} \cup SeqRange(LastValueFields)
            \cup SeqRange(Aggs) \cup PowerFields \cup Channels

VARIABLES
    \* CookieCache
    system, cookie, cookieJar, validTill,
    \* TigoData
    lastTime, data, energy_accumulators, last_update,
    \* the running fetch_data call: position, locals
    pc, authHeader, time,
    \* environment and observation
    clock,      \* the wall clock
    reqs,       \* requests issued by the current (or last) cycle, in order
    outcome,    \* how the last fetch_data call ended
    prev,       \* how the fetch_data call before it ended
    failed,     \* sub-fetches that failed in the last cycle that got past step 2
    renewed,    \* the cache fields step 1 of the current cycle has replaced
    ncycles, faults, nlogins,
    vary,       \* the aspect in which the upstream varies in this run
    \* get_value applied to one bar-aggregate response
    graph, value

cacheVars == <<system, cookie, cookieJar, validTill>>
dataVars == <<lastTime, data, energy_accumulators, last_update>>
frameVars == <<pc, authHeader, time>>
envVars == <<clock, reqs, outcome, prev, ncycles, faults, nlogins, vary>>
gvVars == <<graph, value>>
histVars == <<failed, renewed>>
vars == <<system, cookie, cookieJar, validTill, lastTime, data, energy_accumulators,
          last_update, pc, authHeader, time, clock, reqs, outcome, prev, ncycles,
          faults, nlogins, vary, graph, value, failed, renewed>>

\* One issued request: its name, how it ended ("ok", "status" for a non-200
\* status, "raise", and "nocsrf" for a login page without the CSRF line), and
\* the JSON body that was read, if one was.
Req(name, res, body) == [req |-> name, res |-> res, body |-> body]
ReqNames(log) == [i \in 1..Len(log) |-> log[i].req]

\* ------------------------------------------------------------ CookieCache
\* (a variant: the cookie is still served at the instant of its expiry)
SessionValidAtExpiry(now) == validTill >= now

\* line 59: the cached cookie is served while the expiry is in the future.
SessionValid(now) == validTill > now

\* (a variant: the hour of margin is added, not subtracted)
NewValidTillPlusMargin(now, seconds) == now + seconds + SecondsPerHour

\* (a variant: the hour of margin is left out)
NewValidTillNoMargin(now, seconds) == now + seconds

\* line 99: now + timedelta(seconds=seconds, hours=-1)
NewValidTill(now, seconds) == now + seconds - SecondsPerHour

\* (variants: the reset leaves the expiry as it is; it moves it an hour ahead)
ResetKeepsValidTill == validTill
ResetToLater == clock + SecondsPerHour

\* lines 52-54: resetCookie puts the expiry back to datetime(1, 1, 1).  Its one
\* caller is line 150.
ResetValidTill == Epoch

\* What the upstream does during one login sequence.
\*   page: "csrf" the login page carries the TIGO_CSRF_TOKEN line, "nocsrf" it
\*         does not, "raise" the GET raises;
\*   post: "ok" status 200, "status" another status, "raise" the POST raises;
\*   setc: whether the POST's response sets the wssJwt cookie, and its max-age;
\*   desc: "ok" the config GET returns JSON, "raise" it raises;
\*   dur:  the time the sequence takes.
SetCookies == {[set |-> FALSE, maxAge |-> None]}
                \cup {[set |-> TRUE, maxAge |-> a] : a \in {None} \cup {Some(m) : m \in MaxAges}}
LoginInputs == [page : {"csrf", "nocsrf", "raise"}, post : {"ok", "status", "raise"},
                setc : SetCookies, desc : {"ok", "raise"}, dur : LoginDurations]
NominalLogin == [page |-> "csrf", post |-> "ok", setc |-> [set |-> TRUE, maxAge |-> Some(7200)],
                 desc |-> "ok", dur |-> 0]
B2N(b) == IF b THEN 1 ELSE 0
LoginCost(in) == B2N(in.page # "csrf") + B2N(in.post # "ok")
                   + B2N(~in.setc.set \/ in.setc.maxAge = None) + B2N(in.desc # "ok")

\* The result of __getCookie: the fields it leaves in the cache, whether it
\* raised, the cookie it returned and the requests it issued.
CookieResult(raised, ck, jar, sys, vt, log) ==
    [raised |-> raised, cookie |-> ck, cookieJar |-> jar, system |-> sys,
     validTill |-> vt, reqs |-> log]

\* (a variant: the descriptor is fetched by every login)
DescriptorAlwaysFetched == TRUE

\* line 89: if self._system is None
DescriptorMissing == system = None

\* lines 56-100
getCookie(in) ==
    LET now == clock
        get == Req("GET /", IF in.page = "csrf" THEN "ok" ELSE in.page, None)
        post == Req("POST /", in.post, None)
        conf == Req("GET config", in.desc, None)
    IN
    IF SessionValid(now)
    THEN CookieResult(FALSE, cookie, cookieJar, system, validTill, << >>)
    ELSE IF in.page # "csrf"
    THEN \* the GET raises, or csfr is unbound at line 71
         CookieResult(TRUE, cookie, cookieJar, system, validTill, <<get>>)
    ELSE IF in.post = "raise"
    THEN CookieResult(TRUE, cookie, cookieJar, system, validTill, <<get, post>>)
    ELSE \* line 79 only logs a status other than 200
         LET jar1 == IF in.setc.set
                     THEN Some([value |-> nlogins + 1, maxAge |-> in.setc.maxAge])
                     ELSE cookieJar
             \* lines 82-85
             cookie1 == IF jar1 # None THEN jar1 ELSE cookie
             needSys == DescriptorMissing
             log1 == IF needSys THEN <<get, post, conf>> ELSE <<get, post>>
         IN
         IF needSys /\ in.desc = "raise"
         THEN CookieResult(TRUE, cookie1, jar1, system, validTill, log1)
         ELSE LET system1 == IF needSys THEN Some(nlogins + 1) ELSE system
              IN
              \* line 98: None["max-age"] and int("") raise
              IF cookie1 = None \/ cookie1[1].maxAge = None
              THEN CookieResult(TRUE, cookie1, jar1, system1, validTill, log1)
              ELSE CookieResult(FALSE, cookie1, jar1, system1,
                                NewValidTill(now, cookie1[1].maxAge[1]), log1)

\* The inputs a call of __getCookie can meet in the current state.
CanLogin(in) ==
    /\ vary # "session" => in = NominalLogin
    /\ faults + LoginCost(in) <= MaxFaults
    /\ clock + in.dur <= Horizon
    /\ SessionValid(clock) => in = NominalLogin
    /\ system # None => in.desc = "ok"
    /\ in.page # "csrf" => in.post = "ok" /\ in.setc = NominalLogin.setc /\ in.desc = "ok"
    /\ in.post = "raise" => in.setc = NominalLogin.setc /\ in.desc = "ok"

LoginRan(r) == r.reqs # << >>

\* The cache after a call of __getCookie with result r.
CacheAfter(in, r) ==
    /\ cookie' = r.cookie
    /\ cookieJar' = r.cookieJar
    /\ system' = r.system
    /\ validTill' = r.validTill
    /\ clock' = IF LoginRan(r) THEN clock + in.dur ELSE clock
    /\ nlogins' = IF LoginRan(r) THEN nlogins + 1 ELSE nlogins
    /\ faults' = faults + LoginCost(in)

\* lines 45-50, called between two cycles
getSystemAsync ==
    /\ pc = "idle"
    /\ system = None
    /\ \E in \in LoginInputs :
         /\ CanLogin(in)
         /\ CacheAfter(in, getCookie(in))
    /\ UNCHANGED <<dataVars, frameVars, reqs, outcome, prev, ncycles, vary, gvVars, histVars>>

\* The wall clock advances between two cycles.
Tick ==
    /\ pc = "idle"
    /\ vary \in {"session", "power"}
    /\ \E d \in Intervals :
         /\ clock + d <= Horizon
         /\ clock' = clock + d
    /\ UNCHANGED <<cacheVars, dataVars, frameVars, reqs, outcome, prev, ncycles, faults,
                   nlogins, vary, gvVars, histVars>>

\* --------------------------------------------------------------- TigoData
\* lines 104-113
InitAccumulators == [k \in Channels |-> 0]

\* The code's float energy value of an accumulator held in power-seconds.
Energy(v) == [num |-> v, den |-> SecondsPerHour]

\* (a variant: = in place of +=)
integrate_energy_assign(acc, last, key, power, now) ==
    IF last # None
    THEN [acc EXCEPT ![key] = power * (now - last[1])]
    ELSE acc

\* lines 115-118: the accumulators after _integrate_energy(key, power, now);
\* elapsed is now - last in seconds.
integrate_energy(acc, last, key, power, now) ==
    IF last # None
    THEN [acc EXCEPT ![key] = @ + power * (now - last[1])]
    ELSE acc

Abs(x) == IF x < 0 THEN -x ELSE x

\* (a variant: the signed reading feeds pos whatever its sign)
integrate_unsplit(acc, last, reading, pos, neg, now) ==
    IF reading = None THEN acc
    ELSE integrate_energy(acc, last, pos, reading[1], now)

\* lines 201-206 and 207-212: a signed reading feeds pos when positive and neg
\* (by its absolute value) when negative.
integrate_signed(acc, last, reading, pos, neg, now) ==
    IF reading = None THEN acc
    ELSE IF reading[1] > 0 THEN integrate_energy(acc, last, pos, reading[1], now)
    ELSE IF reading[1] < 0 THEN integrate_energy(acc, last, neg, Abs(reading[1]), now)
    ELSE acc

\* lines 213-216: an unsigned reading feeds its channel as it is.
integrate_plain(acc, last, reading, key, now) ==
    IF reading # None THEN integrate_energy(acc, last, key, reading[1], now) ELSE acc

\* lines 200-216
integrate_all(acc, last, body, now) ==
    IF last = None THEN acc
    ELSE LET a1 == integrate_signed(acc, last, body.grid, "grid_export", "grid_import", now)
             a2 == integrate_signed(a1, last, body.battery, "battery_charge",
                                    "battery_discharge", now)
             a3 == integrate_plain(a2, last, body.solar, "solar_energy", now)
         IN integrate_plain(a3, last, body.home, "home_energy", now)

\* lines 130-139.  A graph is its "series" list; a serie is [id, data]; a data
\* point is its second element, None or a number.
\* (a variant: the scan of the data points stops at the first that is not null)
RECURSIVE ScanDataFirst(_, _)
ScanDataFirst(points, result) ==
    IF points = << >> THEN result
    ELSE IF Head(points) # None THEN Head(points)[1]
    ELSE ScanDataFirst(Tail(points), result)

RECURSIVE ScanData(_, _)
ScanData(points, result) ==
    IF points = << >> THEN result
    ELSE ScanData(Tail(points), IF Head(points) # None THEN Head(points)[1] ELSE result)

RECURSIVE ScanSeries(_)
ScanSeries(series) ==
    IF series = << >> THEN 0
    ELSE IF Head(series).id = "solar_total" THEN ScanData(Head(series).data, 0)
    ELSE ScanSeries(Tail(series))

get_value(g) == ScanSeries(g)

\* Bar-aggregate responses.
Points == {None, Some(1), Some(2)}
SeqsUpTo(S, n) == UNION {[1..k -> S] : k \in 0..n}
SeriesSet == [id : {"solar_total", "other"}, data : SeqsUpTo(Points, MaxData)]
Graphs == SeqsUpTo(SeriesSet, MaxSeries)

\* The bar-aggregate responses the polling cycles meet: the cycle's figure c
\* as the only point, or after a null point and an older figure.
CycleGraphs(c) ==
    { <<[id |-> "solar_total", data |-> <<Some(c)>>]>>,
      <<[id |-> "other", data |-> <<Some(c + 10)>>],
        [id |-> "solar_total", data |-> <<None, Some(c + 20), Some(c)>>]>> }

\* Instantaneous-power responses: the first sample of object types 14 (grid),
\* 36 (home), 46 (battery percentage), 56 (battery) and 62 (solar).
SensorBody(g, h, p, b, s) == [grid |-> g, home |-> h, pct |-> p, battery |-> b, solar |-> s]
SensorBodies ==
    { SensorBody(Some(5), Some(3), Some(50), Some(2), Some(8)),
      SensorBody(Some(-4), Some(7), Some(40), Some(-3), Some(6)),
      SensorBody(Some(0), None, None, Some(0), None),
      SensorBody(None, None, None, None, None),
      SensorBody(None, Some(-1), None, None, Some(-2)) }


NominalSensor == SensorBody(Some(5), Some(3), Some(50), Some(2), Some(8))

Results == {"ok", "status", "raise"}
Cost(res) == B2N(res # "ok")

\* The faults that can still happen to the sub-fetches 1..n of a loop: the
\* positions that fail, each with a non-200 status or an exception.
FaultMaps(n) ==
    LET k == IF vary = "fetch" THEN MaxFaults - faults ELSE 0
    IN UNION {[S -> {"status", "raise"}] : S \in {T \in SUBSET (1..n) : Cardinality(T) <= k}}
ResultAt(fl, i) == IF i \in DOMAIN fl THEN fl[i] ELSE "ok"

\* "HH:MM" of the first entry of datasetLastData, None when it has no entry.
AggBody(c, last) == [dataset |-> c, last |-> last]
LastBody(res, f, c, t) == [ok |-> res = "ok", field |-> f, cycle |-> c, time |-> t]

\* (a variant: the cache is reset and the cycle goes on)
AggFailureGoesOn == FALSE

\* lines 149-151: a status other than 200 on the aggenergy request ends the
\* cycle (the return of line 151).
AggFailureReturns == TRUE

\* (a variant: the exception leaves fetch_data)
SubFetchErrorPropagates == TRUE

\* lines 179-182, 235-238, 244-247: the except clause of a sub-fetch logs the
\* exception and does not let it out.
SubFetchErrorEscapes == FALSE

\* The state a loop of sub-fetches works on.
LoopState(d, log, raised) == [data |-> d, reqs |-> log, raised |-> raised]

\* lines 163-182 from the i-th field on: fl names the requests that fail.
RECURSIVE lastvalue_loop(_, _, _)
lastvalue_loop(i, fl, st) ==
    IF i > Len(LastValueFields) \/ st.raised THEN st
    ELSE LET f == LastValueFields[i]
             res == ResultAt(fl, i)
             body == LastBody(res, f, ncycles, time)
         IN lastvalue_loop(i + 1, fl,
              IF res = "raise"
              THEN LoopState(st.data, Append(st.reqs, Req(f, res, None)), SubFetchErrorEscapes)
              ELSE \* line 178 stores the JSON body whatever the status
                   LoopState([st.data EXCEPT ![f] = Some(body)],
                             Append(st.reqs, Req(f, res, Some(body))), FALSE))

\* lines 230-238 from the i-th view on: every view answers with graph g, fl
\* names the requests that fail (a failed request's body has no "series").
RECURSIVE bar_loop(_, _, _, _)
bar_loop(i, fl, g, st) ==
    IF i > Len(Aggs) \/ st.raised THEN st
    ELSE LET agg == Aggs[i]
             res == ResultAt(fl, i)
         IN bar_loop(i + 1, fl, g,
              IF res # "ok"
              THEN LoopState(st.data, Append(st.reqs, Req(agg, res, None)), SubFetchErrorEscapes)
              ELSE LoopState([st.data EXCEPT ![agg] = Some(get_value(g))],
                             Append(st.reqs, Req(agg, res, Some(get_value(g)))), FALSE))

\* The cycle whose requests are log got past the status gate of line 149, and
\* the sub-fetches of lines 163-182 and 230-247 that failed in it.
PassedStep2(log) == \E i \in 1..Len(log) : log[i].req = "aggenergy" /\ log[i].res = "ok"
FailedIn(log) == {log[i].req : i \in {j \in 1..Len(log) :
                     log[j].res # "ok" /\ log[j].req \notin {"GET /", "POST /", "GET config",
                                                            "aggenergy", "sensor"}}}

\* lines 143-144: fetch_data starts by asking for the auth header.
fetch_data_auth ==
    /\ pc = "idle"
    /\ ncycles < MaxCycles
    /\ ncycles' = ncycles + 1
    /\ prev' = outcome
    /\ failed' = IF PassedStep2(reqs) THEN FailedIn(reqs) ELSE failed
    /\ \E in \in LoginInputs :
         /\ CanLogin(in)
         /\ LET r == getCookie(in) IN
              /\ CacheAfter(in, r)
              /\ reqs' = r.reqs
              /\ IF r.raised
                 THEN /\ outcome' = "raised"
                      /\ UNCHANGED frameVars
                 ELSE /\ outcome' = "running"
                      /\ pc' = "agg"
                      /\ authHeader' = Some(r.cookie[1].value)
                      /\ UNCHANGED time
    /\ renewed' = {f \in {"cookie", "system"} :
                       \/ f = "cookie" /\ cookie' # cookie
                       \/ f = "system" /\ system' # system}
    /\ UNCHANGED <<dataVars, vary, gvVars>>

\* lines 145-162: the aggenergy request, its status gate, the derived time.
fetch_data_aggenergy ==
    /\ pc = "agg"
    /\ \E res \in Results, last \in {None} \cup {Some(t) : t \in ObsTimes} :
         /\ res # "ok" => vary = "session" /\ last = None
         /\ res = "ok" /\ vary # "fetch" => last = Some(1)
         /\ faults + B2N(res = "raise") <= MaxFaults
         /\ faults' = faults + B2N(res = "raise")
         /\ reqs' = Append(reqs, Req("aggenergy", res, None))
         /\ CASE res = "raise" ->
                   /\ outcome' = "raised"
                   /\ pc' = "idle"
                   /\ UNCHANGED <<validTill, dataVars, time>>
              [] res = "status" /\ AggFailureReturns ->
                   /\ validTill' = ResetValidTill
                   /\ pc' = "idle"
                   /\ outcome' = "aborted"
                   /\ UNCHANGED <<dataVars, time>>
              [] OTHER ->
                   LET val == AggBody(ncycles, last)
                       t == IF val.last # None THEN val.last ELSE lastTime
                   IN /\ validTill' = IF res = "status" THEN ResetValidTill ELSE validTill
                      /\ data' = [data EXCEPT !["energyRaw"] = Some(val),
                                              !["energy"] = Some(val.dataset)]
                      /\ time' = t
                      /\ lastTime' = t
                      /\ pc' = IF lastTime # t THEN "last" ELSE "sensor"
                      /\ UNCHANGED <<energy_accumulators, last_update, outcome>>
    /\ UNCHANGED <<system, cookie, cookieJar, authHeader, clock, prev, ncycles, nlogins,
                   vary, gvVars, histVars>>

\* lines 163-182: the last-value loop.
fetch_data_lastvalue ==
    /\ pc = "last"
    /\ \E fl \in FaultMaps(Len(LastValueFields)) :
         LET st == lastvalue_loop(1, fl, LoopState(data, reqs, FALSE))
         IN /\ faults' = faults + Cardinality(DOMAIN fl)
            /\ data' = st.data
            /\ reqs' = st.reqs
            /\ pc' = IF st.raised THEN "idle" ELSE "sensor"
            /\ outcome' = IF st.raised THEN "raised" ELSE outcome
    /\ UNCHANGED <<cacheVars, lastTime, energy_accumulators, last_update, authHeader,
                   time, clock, prev, ncycles, nlogins, vary, gvVars, histVars>>

\* (a variant: the snapshot is taken from the accumulators before the integration)
EnergySnapshotStale(acc, f) == Some(Energy(energy_accumulators[f]))

\* lines 218-223: self._data[f] = self._energy_accumulators[f]
EnergySnapshot(acc, f) == Some(Energy(acc[f]))

\* (a variant: the instant advances only when the response carries a reading)
LastUpdateWhenMetered(body, now) ==
    IF body.grid = None /\ body.home = None /\ body.battery = None /\ body.solar = None
    THEN last_update ELSE Some(now)

\* line 217: self._last_update = now, outside the `if` of line 201
LastUpdateAfter(body, now) == Some(now)

\* lines 185-228: the instantaneous-power request and the integration.
fetch_data_sensor ==
    /\ pc = "sensor"
    /\ \E res \in Results :
         /\ res # "ok" => vary = "power"
         /\ faults + Cost(res) <= MaxFaults
         /\ faults' = faults + Cost(res)
         /\ IF res = "ok"
            THEN \E body \in SensorBodies :
                   /\ vary # "power" => body = NominalSensor
                   /\ LET now == clock
                          acc == integrate_all(energy_accumulators, last_update, body, now)
                      IN /\ reqs' = Append(reqs, Req("sensor", res, Some(body)))
                         /\ energy_accumulators' = acc
                         /\ last_update' = LastUpdateAfter(body, now)
                         /\ data' = [f \in Fields |->
                                      CASE f = "gridPower" -> body.grid
                                        [] f = "homePower" -> body.home
                                        [] f = "batteryPercentage" -> body.pct
                                        [] f = "batteryPower" -> body.battery
                                        [] f = "solarPower" -> body.solar
                                        [] f = "objectTypeIds" -> Some(body)
                                        [] f = "dataAvailable" -> Some(TRUE)
                                        [] f = "time" -> Some(ncycles)
                                        [] f \in Channels -> EnergySnapshot(acc, f)
                                        [] OTHER -> data[f]]
            ELSE \* line 225 or line 228: a warning, nothing else
                 /\ reqs' = Append(reqs, Req("sensor", res, None))
                 /\ UNCHANGED <<data, energy_accumulators, last_update>>
    /\ pc' = "bar"
    /\ UNCHANGED <<cacheVars, lastTime, authHeader, time, clock, outcome, prev, ncycles,
                   nlogins, vary, gvVars, histVars>>

\* lines 230-238: the bar-aggregate loop.
fetch_data_bar ==
    /\ pc = "bar"
    /\ \E fl \in FaultMaps(Len(Aggs)), g \in CycleGraphs(ncycles) :
         LET st == bar_loop(1, fl, g, LoopState(data, reqs, FALSE))
         IN /\ faults' = faults + Cardinality(DOMAIN fl)
            /\ data' = st.data
            /\ reqs' = st.reqs
            /\ pc' = IF st.raised THEN "idle" ELSE "life"
            /\ outcome' = IF st.raised THEN "raised" ELSE outcome
    /\ UNCHANGED <<cacheVars, lastTime, energy_accumulators, last_update, authHeader,
                   time, clock, prev, ncycles, nlogins, vary, gvVars, histVars>>

\* lines 239-247: the lifetime request; fetch_data returns after it.
fetch_data_lifetime ==
    /\ pc = "life"
    /\ \E fl \in FaultMaps(1) :
         /\ faults' = faults + Cardinality(DOMAIN fl)
         /\ IF ResultAt(fl, 1) = "ok"
            THEN /\ reqs' = Append(reqs, Req("allTime", "ok", Some(ncycles)))
                 /\ data' = [data EXCEPT !["allTime"] = Some(ncycles)]
                 /\ outcome' = "returned"
            ELSE \* the request or json() raises, or the body has no "energy" key
                 /\ reqs' = Append(reqs, Req("allTime", ResultAt(fl, 1), None))
                 /\ outcome' = IF SubFetchErrorEscapes THEN "raised" ELSE "returned"
                 /\ data' = data
    /\ pc' = "idle"
    /\ UNCHANGED <<cacheVars, lastTime, energy_accumulators, last_update, authHeader,
                   time, clock, prev, ncycles, nlogins, vary, gvVars, histVars>>

\* ------------------------------------------------------- the accessors
\* The panels of the system; panel p has reported by observation time t when
\* p <= t, so a dataset can lack the key of a panel.
Panels == {1, 2}
ReportedIn(body) == {p \in Panels : p <= body.time[1]}

\* What a call of an accessor comes to: it raised, or it returned value.
ReadResult(raised, v) == [raised |-> raised, value |-> v]

\* lines 253-255: self._data.get(property)["dataset"].  The subscript raises
\* TypeError on the None of a property never stored and KeyError on a stored
\* body without "dataset" (the body of a refused request).
get_reading(property) ==
    IF data[property] = None \/ ~data[property][1].ok
    THEN ReadResult(TRUE, None)
    ELSE ReadResult(FALSE, data[property])

\* lines 286-289: reading.get(str(panelId), None)
coordinator_get_reading(panelId, property) ==
    LET reading == get_reading(property)
    IN IF reading.raised THEN reading
       ELSE IF panelId \in ReportedIn(reading.value[1])
            THEN ReadResult(FALSE, Some(reading.value[1].cycle))
            ELSE ReadResult(FALSE, None)

\* ------------------------------------------------------------ the program
\* The state after TigoData.__init__ (lines 22-30, 104-113, 122-128).
Constructed ==
    /\ system = None
    /\ cookie = None
    /\ cookieJar = None
    /\ validTill = Epoch
    /\ lastTime = None
    /\ data = [f \in Fields |-> None]
    /\ energy_accumulators = InitAccumulators
    /\ last_update = None
    /\ pc = "idle"
    /\ authHeader = None
    /\ time = None
    /\ clock \in StartTimes
    /\ reqs = << >>
    /\ outcome = "none"
    /\ prev = "none"
    /\ ncycles = 0
    /\ faults = 0
    /\ nlogins = 0
    /\ failed = {}
    /\ renewed = {}

Init ==
    /\ Constructed
    /\ vary \in Aspects
    /\ graph = << >>
    /\ value = None

Next ==
    \/ Tick
    \/ getSystemAsync
    \/ fetch_data_auth
    \/ fetch_data_aggenergy
    \/ fetch_data_lastvalue
    \/ fetch_data_sensor
    \/ fetch_data_bar
    \/ fetch_data_lifetime

Spec == Init /\ [][Next]_vars

\* ------------------------------------------- get_value on its own inputs
InitValue ==
    /\ Constructed
    /\ vary = "fetch"
    /\ graph \in Graphs
    /\ value = None

\* lines 130-139 applied to the response at hand
apply_get_value ==
    /\ value = None
    /\ value' = Some(get_value(graph))
    /\ UNCHANGED <<cacheVars, dataVars, frameVars, envVars, histVars, graph>>

NextValue == apply_get_value

SpecValue == InitValue /\ [][NextValue]_vars

\* ================================================================ claims
IsPrefix(a, b) == Len(a) <= Len(b) /\ a = SubSeq(b, 1, Len(a))
\* The requests of a full login sequence in the current state of the cache.
FullLogin == IF system = None THEN <<"GET /", "POST /", "GET config">>
                              ELSE <<"GET /", "POST /">>
\* The step in which fetch_data calls getAuthHeader.
AuthStep == ncycles' = ncycles + 1
Positions(name) == {i \in 1..Len(reqs) : reqs[i].req = name}

\* C1: getAuthHeader issues no request and returns the cached token when
\* now < expiry; when now >= expiry (now = expiry included) it runs the login
\* sequence once: the requests it issues are the GET of the login page, the POST
\* and, only when the descriptor is not cached, the config GET -- all of them
\* unless a request raises or the page carries no CSRF token.
C1_AuthHeaderLogin ==
    [][AuthStep =>
        /\ clock < validTill =>
             /\ reqs' = << >>
             /\ pc' = "agg"
             /\ authHeader' = Some(cookie[1].value)
             /\ UNCHANGED <<cookie, validTill, nlogins>>
        /\ clock >= validTill =>
             /\ reqs' # << >>
             /\ IsPrefix(ReqNames(reqs'), FullLogin)
             /\ (\A i \in 1..Len(reqs') : reqs'[i].res \in {"ok", "status"})
                   => ReqNames(reqs') = FullLogin
             /\ nlogins' = nlogins + 1]_vars

\* A cycle got its header from the cache, without a request.
C1_Witness ==
    /\ pc = "agg"
    /\ reqs = << >>
    /\ cookie # None
    /\ clock < validTill
    /\ authHeader = Some(cookie[1].value)

\* C2: after resetCookie (its caller is the cycle aborted at step 2), whatever
\* the expiry was before, the next getAuthHeader call starts the login sequence
\* and does not return the cached token.
C2_ResetForcesLogin ==
    [][(outcome = "aborted" /\ AuthStep) =>
          /\ reqs' # << >>
          /\ reqs'[1].req = "GET /"
          /\ nlogins' = nlogins + 1]_vars

\* The call after a reset has logged in and returned a header.
C2_Witness ==
    /\ prev = "aborted"
    /\ pc = "agg"
    /\ reqs # << >>
    /\ reqs[1].req = "GET /"

\* C3: a non-200 status on the aggenergy request is the last request of its
\* cycle, and the cycle ends with the expiry in the past.
C3_AbortAtStep2 ==
    \A i \in Positions("aggenergy") :
        reqs[i].res = "status" =>
            /\ i = Len(reqs)
            /\ pc = "idle"
            /\ validTill < clock

\* A cycle was aborted at step 2.
C3_Witness ==
    /\ outcome = "aborted"
    /\ reqs # << >>
    /\ reqs[Len(reqs)] = Req("aggenergy", "status", None)
    /\ validTill < clock

\* C4: in the cycle that follows one aborted at step 2, the aggenergy request
\* comes after the GET and the POST of a login sequence.
C4_LoginAfterAbort ==
    prev = "aborted" =>
        \A i \in Positions("aggenergy") :
            /\ i > 2
            /\ reqs[1].req = "GET /" /\ reqs[1].res = "ok"
            /\ reqs[2].req = "POST /" /\ reqs[2].res \in {"ok", "status"}

\* The cycle after an aborted one has logged in and issued its aggenergy request.
C4_Witness ==
    /\ prev = "aborted"
    /\ \E i \in Positions("aggenergy") : i > 2

SubFetches == SeqRange(LastValueFields) \cup SeqRange(Aggs) \cup {"allTime"}
\* The requests every cycle that passed step 2 issues, and those of step 3.
AfterStep2 == {"sensor", "allTime"} \cup SeqRange(Aggs)
Issued == {reqs[i].req : i \in 1..Len(reqs)}

\* C5: a cycle that passed step 2 returns, whichever sub-fetches raised: it has
\* issued the instantaneous-power, the five bar and the lifetime request, all
\* eight last-value requests if it issued one, and the snapshot holds the body
\* of every sub-fetch of the cycle that succeeded.
C5_SubFetchIsolation ==
    (pc = "idle" /\ \E i \in Positions("aggenergy") : reqs[i].res = "ok") =>
        /\ outcome = "returned"
        /\ AfterStep2 \subseteq Issued
        /\ Issued \cap SeqRange(LastValueFields) # {} => SeqRange(LastValueFields) \subseteq Issued
        /\ \A i \in 1..Len(reqs) :
             (reqs[i].req \in SubFetches /\ reqs[i].res = "ok") => data[reqs[i].req] = reqs[i].body

\* A cycle returned after a last-value request raised and a later one, a bar
\* request and the lifetime request succeeded.
C5_Witness ==
    /\ pc = "idle"
    /\ outcome = "returned"
    /\ \E i, j \in 1..Len(reqs) :
         /\ i < j
         /\ reqs[i].req \in SeqRange(LastValueFields) /\ reqs[i].res = "raise"
         /\ reqs[j].req \in SeqRange(LastValueFields) /\ reqs[j].res = "ok"
         /\ data[reqs[j].req] = reqs[j].body
    /\ data["allTime"] = Some(ncycles)

\* The step in which the instantaneous-power request succeeds.
SensorOk == pc = "sensor" /\ reqs'[Len(reqs')].res = "ok"
\* Seconds since the previous successful sample; 0 when there is none.
Elapsed == IF last_update = None THEN 0 ELSE clock - last_update[1]
Unsigned == {<<"solar_energy", "solarPower">>, <<"home_energy", "homePower">>}

\* C6 as the specification states it: a sample adds the PREVIOUS sample's
\* power times the elapsed time to the accumulator of a unidirectional channel
\* (accumulators are in power-seconds, so the division by 3600 is on both sides).
C6_PreviousPowerHeld ==
    [][SensorOk =>
        \A c \in Unsigned :
            (last_update # None /\ data[c[2]] # None /\ data'[c[2]] # None) =>
                energy_accumulators'[c[1]] = energy_accumulators[c[1]] + data[c[2]][1] * Elapsed]_vars

\* C6, amended: a sample adds ITS OWN power times the time elapsed since the
\* previous sample; it adds nothing when it carries no reading of the channel;
\* the first sample leaves the accumulator at 0.
C6_CurrentPowerHeld ==
    [][SensorOk =>
        \A c \in Unsigned :
            IF last_update = None
            THEN energy_accumulators'[c[1]] = 0 /\ energy_accumulators[c[1]] = 0
            ELSE IF data'[c[2]] = None
            THEN energy_accumulators'[c[1]] = energy_accumulators[c[1]]
            ELSE energy_accumulators'[c[1]] = energy_accumulators[c[1]] + data'[c[2]][1] * Elapsed]_vars

\* The solar accumulator holds two intervals: 1800 s at 6 after 1800 s at 8.
C6_Witness ==
    /\ last_update # None
    /\ data["solarPower"] = Some(6)
    /\ energy_accumulators["solar_energy"] = 8 * 1800 + 6 * 1800

\* What a signed reading r does to its pair of accumulators in one step.
SplitStep(r, pos, neg) ==
    IF r # None /\ r[1] > 0
    THEN /\ energy_accumulators'[pos] = energy_accumulators[pos] + r[1] * Elapsed
         /\ energy_accumulators'[neg] = energy_accumulators[neg]
    ELSE IF r # None /\ r[1] < 0
    THEN /\ energy_accumulators'[neg] = energy_accumulators[neg] + (0 - r[1]) * Elapsed
         /\ energy_accumulators'[pos] = energy_accumulators[pos]
    ELSE /\ energy_accumulators'[pos] = energy_accumulators[pos]
         /\ energy_accumulators'[neg] = energy_accumulators[neg]
Split == {"grid_export", "grid_import", "battery_charge", "battery_discharge"}

\* C7: the four accumulators of the grid and battery pairs never decrease; a
\* sample with a positive reading adds to the first of the pair only, one with
\* a negative reading adds its absolute value to the second only, a zero or
\* absent reading changes neither.
C7_SignSplitting ==
    [][/\ \A k \in Split : energy_accumulators'[k] >= energy_accumulators[k]
       /\ SensorOk =>
            /\ SplitStep(data'["gridPower"], "grid_export", "grid_import")
            /\ SplitStep(data'["batteryPower"], "battery_charge", "battery_discharge")]_vars

\* Readings of both signs have been integrated on both pairs.
C7_Witness == \A k \in Split : energy_accumulators[k] > 0

\* C8 as stated: none of the six accumulators ever decreases or is negative.
C8_AccumulatorsMonotone ==
    [][\A k \in Channels :
          /\ energy_accumulators'[k] >= energy_accumulators[k]
          /\ energy_accumulators'[k] >= 0]_vars

\* The first serie with id solar_total, 0 when there is none.
FirstSolar == LET S == {i \in 1..Len(graph) : graph[i].id = "solar_total"}
              IN IF S = {} THEN 0 ELSE CHOOSE i \in S : \A j \in S : i <= j
NonNull(points) == {j \in 1..Len(points) : points[j] # None}

\* C9 as stated: get_value returns the first data point that is not null of the
\* solar_total serie, 0 when there is no such serie or point.
C9_FirstNonNull ==
    value # None =>
        value[1] = IF FirstSolar = 0 \/ NonNull(graph[FirstSolar].data) = {} THEN 0
                   ELSE LET d == graph[FirstSolar].data
                        IN d[CHOOSE j \in NonNull(d) : \A k \in NonNull(d) : j <= k][1]

\* C9, amended: get_value returns the LAST data point that is not null of the
\* first serie whose id is solar_total, 0 when there is no such serie or point.
C9_LastNonNull ==
    value # None =>
        value[1] = IF FirstSolar = 0 \/ NonNull(graph[FirstSolar].data) = {} THEN 0
                   ELSE LET d == graph[FirstSolar].data
                        IN d[CHOOSE j \in NonNull(d) : \A k \in NonNull(d) : j >= k][1]

\* get_value has read a solar_total serie with two different points.
C9_Witness ==
    /\ value # None
    /\ FirstSolar # 0
    /\ LET d == graph[FirstSolar].data
       IN Len(d) = 2 /\ d[1] # None /\ d[2] # None /\ d[1] # d[2] /\ value = d[2]

\* C10: a getAuthHeader call that logged in leaves expiry = the instant it read
\* at its start + the cookie's max-age - one hour, and the expiry changes in no
\* other way than by this rule or by the reset to the epoch.
C10_ExpiryRule ==
    [][LET rule == /\ cookie' # None
                   /\ cookie'[1].maxAge # None
                   /\ validTill' = clock + cookie'[1].maxAge[1] - 3600
       IN /\ (AuthStep /\ pc' = "agg" /\ reqs' # << >>) => rule
          /\ validTill' # validTill => (validTill' = Epoch \/ rule)]_vars

\* A login that took 1800 s has set the expiry from the instant it started at.
C10_Witness ==
    /\ pc = "agg"
    /\ reqs # << >>
    /\ cookie # None
    /\ cookie[1].maxAge # None
    /\ validTill = (clock - 1800) + cookie[1].maxAge[1] - 3600

\* The login POST of the step at hand was answered with a non-success status.
PostRefused == \E i \in 1..Len(reqs') : reqs'[i].req = "POST /" /\ reqs'[i].res = "status"

\* C11: when the login POST answers with a non-success status, getAuthHeader
\* returns no header, the expiry is not extended, and the cycle ends there with
\* no data request.
C11_LoginRefused ==
    [][AuthStep /\ PostRefused =>
          /\ pc' = "idle"
          /\ authHeader' = authHeader
          /\ outcome' = "raised"
          /\ validTill' = validTill]_vars

ConfigGets(log) == {i \in 1..Len(log) : log[i].req = "GET config"}

\* C12: once the site descriptor is cached its value never changes and no
\* login asks for it again; the descriptor request is issued only by a login
\* sequence that runs while the descriptor is not cached, and by no other step.
C12_DescriptorOnce ==
    [][/\ system # None => system' = system
       /\ AuthStep /\ ConfigGets(reqs') # {} =>
            system = None /\ ReqNames(reqs')[1] = "GET /"
       /\ ~AuthStep => ConfigGets(reqs') = ConfigGets(reqs)]_vars

\* A second login has run with the descriptor of the first one in the cache.
C12_Witness ==
    /\ pc = "agg"
    /\ ReqNames(reqs) = <<"GET /", "POST /">>
    /\ nlogins >= 2
    /\ system = Some(1)

\* C13: get_reading(panelId, property) returns the value stored under the
\* panel's key in the property's fetched dataset, and returns None without
\* raising both when the key is missing from the dataset and when the dataset
\* of the property was never fetched.
C13_ReadingNeverRaises ==
    \A p \in Panels, f \in SeqRange(LastValueFields) :
        LET r == coordinator_get_reading(p, f)
            fetched == data[f] # None /\ data[f][1].ok
        IN /\ ~r.raised
           /\ fetched /\ p \in ReportedIn(data[f][1]) => r.value = Some(data[f][1].cycle)
           /\ fetched /\ p \notin ReportedIn(data[f][1]) => r.value = None
           /\ ~fetched => r.value = None

\* C14: a login sequence replaces the token and the expiry together, both from
\* the login that completed; a login that fails part-way (no CSRF token, no
\* session cookie, the descriptor request raising) leaves both as they were.
C14_TokenWithExpiry ==
    [][nlogins' # nlogins =>
          \/ cookie' = cookie /\ validTill' = validTill
          \/ /\ cookie' # None
             /\ cookie'[1].value = nlogins'
             /\ cookie'[1].maxAge # None
             /\ validTill' = clock + cookie'[1].maxAge[1] - 3600]_vars

\* C15: the instant of the last integration is set to the current instant by
\* the steps in which the instantaneous-power request succeeds, whatever
\* readings the response carries, and by no other step; a step in which that
\* request fails leaves the six accumulators, the instant and the snapshot's
\* energy and power fields as they were.
C15_IntegrationInstant ==
    [][/\ SensorOk => last_update' = Some(clock)
       /\ ~SensorOk => /\ last_update' = last_update
                       /\ energy_accumulators' = energy_accumulators
                       /\ \A f \in Channels \cup PowerFields : data'[f] = data[f]]_vars

\* The request of step 4 has failed in a cycle that follows a successful
\* sample without any reading: the instant is the one of that sample.
C15_Witness ==
    /\ pc = "bar"
    /\ \E i \in Positions("sensor") : reqs[i].res # "ok"
    /\ last_update # None
    /\ last_update[1] < clock
    /\ data["objectTypeIds"] = Some(SensorBody(None, None, None, None, None))

\* C16: when the request of a sub-fetch (a last-value field, a bar view, the
\* lifetime total) raises or answers with a non-success status, the snapshot
\* field of that sub-fetch keeps its value: the body of a failed response is
\* never stored.
C16_FailedKeepsValue ==
    [][~AuthStep =>
          \A i \in (Len(reqs) + 1)..Len(reqs') :
              LET f == reqs'[i].req
              IN f \in SubFetches /\ reqs'[i].res # "ok" => data'[f] = data[f]]_vars

\* C17: every sub-fetch that failed in a cycle is requested again by the next
\* cycle that gets past step 2, whether or not the observation timestamp of the
\* aggregate response has changed.
C17_NextCycleRetries ==
    pc = "idle" /\ outcome = "returned" => failed \subseteq Issued

\* The step in which the aggenergy request answers with a non-success status.
AbortStep == /\ pc = "agg"
             /\ reqs'[Len(reqs')].req = "aggenergy"
             /\ reqs'[Len(reqs')].res = "status"

ShortLived(ck) == ck # None /\ ck[1].maxAge # None /\ ck[1].maxAge[1] <= 3600

\* C19: when the session cookie declares a max-age of at most 3600 s, the
\* expiry a completed login computes is not later than the instant the login
\* started at, and the getAuthHeader call of every later cycle runs the login
\* sequence again instead of serving the cache.
C19_ShortCookieAlwaysLogsIn ==
    [][/\ AuthStep /\ pc' = "agg" /\ reqs' # << >> /\ ShortLived(cookie') => validTill' <= clock
       /\ AuthStep /\ ShortLived(cookie) =>
            reqs' # << >> /\ IsPrefix(ReqNames(reqs'), FullLogin)]_vars

\* Two cycles at the same instant have both logged in: the first login's
\* cookie had a max-age of at most an hour.
C19_Witness ==
    /\ pc = "agg"
    /\ prev = "returned"
    /\ clock \in StartTimes
    /\ nlogins >= 2
    /\ ReqNames(reqs) = <<"GET /", "POST /">>
    /\ ShortLived(cookie)
    /\ validTill <= clock

\* C20: an accumulator changes in no step but one in which the instantaneous-
\* power request succeeds, and at the end of every cycle that follows such a
\* step each of the six energy fields of the snapshot equals its accumulator.
C20_SnapshotTracksAccumulators ==
    [][/\ energy_accumulators' # energy_accumulators => SensorOk
       /\ pc' = "idle" /\ last_update' # None =>
            \A k \in Channels : data'[k] = Some(Energy(energy_accumulators'[k]))]_vars

\* A cycle has returned with energy integrated on the solar channel and
\* published in the snapshot.
C20_Witness ==
    /\ pc = "idle"
    /\ outcome = "returned"
    /\ last_update # None
    /\ energy_accumulators["solar_energy"] > 0
    /\ data["solar_energy"] = Some(Energy(energy_accumulators["solar_energy"]))

====
